---- MODULE Spec2Model ----
(***************************************************************************)
(* A model of the per-call pipeline of the phone agent: CallHandler        *)
(* (src/src/call_handler.py), Conversation and respond_by_sentence         *)
(* (src/src/brain.py), DeepgramSTT (src/src/stt.py) and the outcome of     *)
(* DeepgramTTS.synthesize (src/src/tts.py).                                *)
(*                                                                         *)
(* A text is a sequence of one-character strings.  The asyncio tasks of a  *)
(* call (the handler/telephony reader, the STT receive loop, the speech    *)
(* sender and the utterance processors) are interleaved at their await     *)
(* points: one action is the code a task runs between two awaits.          *)
(***************************************************************************)
EXTENDS Naturals, Sequences, FiniteSets, TLC

\* ------------------------------------------------------------------ bounds
\* inbound telephony frames read during a call
MaxInbound == 2
\* messages received from the STT connection during a call
MaxEvents == 2
\* chunks of the longest synthesized blob
MaxChunks == 2

\* ------------------------------------------------------------------ texts
\* str.strip(): the only whitespace of the modelled alphabet is the space
RECURSIVE LStrip(_)
LStrip(s) ==
    IF s # <<>> /\ Head(s) = " " THEN LStrip(Tail(s)) ELSE s

RECURSIVE RStrip(_)
RStrip(s) ==
    IF s # <<>> /\ s[Len(s)] = " " THEN RStrip(SubSeq(s, 1, Len(s) - 1)) ELSE s

Strip(s) == RStrip(LStrip(s))

\* f"Hello, this is {settings.agent_name}. How can I help you?", one token
Greeting == <<"G">>

\* the fixed apology of _process_utterance's except branch, one token
Fallback == <<"S">>

\* Conversation.system_prompt, one token
SystemPrompt == <<"P">>

\* the characters of the class [.!?] of _sentence_pattern
Punct == {".", "!", "?"}

\* re.search(r"([.!?]+)\s*", buffer).end(), 0 when there is no match:
\* i scans for the first punctuation character, then the run of punctuation
\* and the run of whitespace after it are consumed greedily.
RECURSIVE SkipWhile(_, _, _)
SkipWhile(buf, i, cls) ==
    IF i <= Len(buf) /\ buf[i] \in cls THEN SkipWhile(buf, i + 1, cls) ELSE i

RECURSIVE FirstPunct(_, _)
FirstPunct(buf, i) ==
    IF i > Len(buf) THEN 0
    ELSE IF buf[i] \in Punct THEN i
    ELSE FirstPunct(buf, i + 1)

\* a variant that ends the match after the first punctuation character
MatchEnd_FirstMark(buf) == FirstPunct(buf, 1)

MatchEnd(buf) ==
    LET p == FirstPunct(buf, 1) IN
    IF p = 0 THEN 0
    ELSE SkipWhile(buf, SkipWhile(buf, p, Punct), {" "}) - 1

\* the inner "while True" of respond_by_sentence: the sentences cut from the
\* buffer (in order) and what is left of it
RECURSIVE CutSentences(_, _)
CutSentences(buf, out) ==
    LET e == MatchEnd(buf) IN
    IF e = 0 THEN [sentences |-> out, buffer |-> buf]
    ELSE LET sentence == Strip(SubSeq(buf, 1, e))
             rest == SubSeq(buf, e + 1, Len(buf))
         IN CutSentences(rest, IF sentence # <<>> THEN Append(out, sentence) ELSE out)

\* ------------------------------------------------------------------ conversation
Message(role, content) == [role |-> role, content |-> content]

\* a variant that never merges: the caller message is always appended
AddUserMessage_AlwaysAppend(messages, text) ==
    Append(messages, Message("user", text))

AddUserMessage(messages, text) ==
    IF messages # <<>> /\ messages[Len(messages)].role = "user"
    THEN [messages EXCEPT ![Len(messages)].content = @ \o <<" ">> \o text]
    ELSE Append(messages, Message("user", text))

AddAssistantMessage(messages, text) ==
    Append(messages, Message("assistant", text))

ToApiFormat(messages) ==
    <<Message("system", SystemPrompt)>> \o messages

\* ------------------------------------------------------------------ inputs
\* chunk_size of _send_audio_to_twilio
chunk_size == 640

\* lengths of the blobs synthesize may return: empty, or k chunks the last
\* of which is one byte long
AudioLens == {0} \cup {(k - 1) * chunk_size + 1 : k \in 1..MaxChunks}

\* dict.get(key, default)
Get(d, key, default) == IF key \in DOMAIN d THEN d[key] ELSE default

\* the "start" object of an inbound start frame: complete for the first start
\* of a call (first), with other identifiers and no customParameters for a
\* repeated one
StartDatas(first) ==
    IF first
    THEN { [callSid |-> "CA1", streamSid |-> "MZ1",
            customParameters |-> [caller |-> "+15551234567",
                                  called |-> "+15550000000"]] }
    ELSE { [callSid |-> "CA2", streamSid |-> "MZ2"] }

\* media.payload of inbound media frames (base64), possibly missing
Payloads == {"", "/w=="}

\* mark.name of inbound mark frames
MarkNames == {"greeting_end", "other"}

\* messages of the STT connection (after json.loads): an interim and a final
\* "a", a speech-final " b " and a speech-final blank, and an UtteranceEnd.
\* transcript is the transcript of the first alternative.
SttMessages ==
    [type : {"Results"}, transcript : {<<"a">>},
     is_final : BOOLEAN, speech_final : {FALSE}]
    \cup [type : {"Results"}, transcript : {<<" ", "b", " ">>, <<" ">>},
          is_final : {TRUE}, speech_final : {TRUE}]
    \cup {[type |-> "UtteranceEnd", transcript |-> <<>>,
           is_final |-> FALSE, speech_final |-> FALSE]}

\* streams of delta.content fragments the LLM may return: one fragment with a
\* sentence and a rest without terminal punctuation, and one empty fragment
Responses ==
    { << <<"a", ".", " ", "b">> >>,
      << <<>> >> }

\* ------------------------------------------------------------------ state
VARIABLES
    state,              \* CallHandler.state
    metadata,           \* CallHandler.metadata
    conversation,       \* CallHandler.conversation.messages
    current_utterance,  \* CallHandler._current_utterance
    is_speaking,        \* CallHandler._is_speaking
    speech_queue,       \* CallHandler._speech_queue; barged is history: the
                        \* entry was queued when the interrupt signal was raised
    stop_speaking,      \* CallHandler._stop_speaking
    handler,            \* position of CallHandler.handle
    sender,             \* the _speech_sender task; barged and err are history:
                        \* the segment was queued at a barge-in, and what raised in it
    procs,              \* the _process_utterance tasks, in creation order
    stt,                \* the DeepgramSTT object and its receive loop
    n_in,               \* inbound telephony frames read so far
    n_ev,               \* STT messages received so far
    sent,               \* history: frames written for the segment dequeued last
    llm_request,        \* history: completion requests made, and the last one's messages
    ever_ended,         \* history: state has been set to ENDED
    finals              \* history: finals received since the last speech_final

vars == <<state, metadata, conversation, current_utterance, is_speaking,
          speech_queue, stop_speaking, handler, sender, procs, stt, n_in, n_ev,
          sent, llm_request, ever_ended, finals>>

Init ==
    /\ state = "connecting"
    /\ metadata = [call_sid |-> "", stream_sid |-> "", caller |-> "", called |-> ""]
    /\ conversation = <<>>
    /\ current_utterance = <<>>
    /\ is_speaking = FALSE
    /\ speech_queue = <<>>
    /\ stop_speaking = FALSE
    /\ handler = "connect"
    /\ sender = [pc |-> "none", cancel |-> FALSE, text |-> <<>>, barged |-> FALSE,
                 err |-> "none", audio_len |-> 0, offset |-> 0]
    /\ procs = <<>>
    /\ stt = [ws |-> "none", closed |-> FALSE, connected |-> FALSE, recv |-> "none"]
    /\ n_in = 0
    /\ n_ev = 0
    /\ sent = <<>>
    /\ llm_request = [n |-> 0, messages |-> <<>>]
    /\ ever_ended = FALSE
    /\ finals = <<>>

\* a variant that puts the texts at the head of the queue
Put_AtHead(queue, texts) ==
    [k \in 1..Len(texts) |-> [text |-> texts[k], barged |-> FALSE]] \o queue

\* asyncio.Queue.put of the texts, in order (the queue is unbounded: put never waits)
Put(queue, texts) ==
    queue \o [k \in 1..Len(texts) |-> [text |-> texts[k], barged |-> FALSE]]

\* ------------------------------------------------------------------ CallHandler.handle
\* handle, lines 75-85: stt.connect succeeds (stt.py lines 45-81), the speech
\* sender task is created and the handler starts reading the telephony socket
Connect ==
    /\ handler = "connect"
    /\ handler' = "reading"
    /\ stt' = [stt EXCEPT !.ws = "open", !.closed = FALSE, !.connected = TRUE,
                          !.recv = "running"]
    /\ sender' = [sender EXCEPT !.pc = "start"]
    /\ UNCHANGED <<state, metadata, conversation, current_utterance, is_speaking,
                   speech_queue, stop_speaking, procs, n_in, n_ev, sent,
                   llm_request, ever_ended, finals>>

\* DeepgramSTT.close, lines 171-194
SttClose(s) ==
    [s EXCEPT !.closed = TRUE, !.ws = "none", !.connected = FALSE,
              !.recv = IF s.recv = "none" THEN "none" ELSE "exited"]

\* DeepgramSTT.send_audio, lines 141-154, on the connection s: the call waits
\* until _connected is set (line 148) and is "blocked" while it is not; the
\* bytes are "sent" on an open socket; with no socket nothing is sent, and on
\* a socket the peer closed the send raises ConnectionClosed, which is
\* caught (lines 150-154): the bytes are "dropped"
SendAudio(s) ==
    IF ~s.connected THEN "blocked"
    ELSE IF s.ws = "open" /\ ~s.closed THEN "sent"
    ELSE "dropped"

\* handle, lines 79 and 87-90: stt.connect raises; _cleanup runs with no task
\* and no STT socket
ConnectFails ==
    /\ handler = "connect"
    /\ handler' = "done"
    /\ state' = "ended"
    /\ ever_ended' = TRUE
    /\ stt' = SttClose(stt)
    /\ UNCHANGED <<metadata, conversation, current_utterance, is_speaking,
                   speech_queue, stop_speaking, sender, procs, n_in, n_ev, sent,
                   llm_request, finals>>

\* ------------------------------------------------------------------ telephony reader
\* _process_twilio_messages reads one more message
Reading == handler = "reading" /\ n_in < MaxInbound

\* a variant in which the decoding error leaves the reading loop and
\* handle's finally runs _cleanup
InvalidJson_Fatal ==
    /\ handler = "reading" /\ n_in < MaxInbound
    /\ n_in' = n_in + 1
    /\ handler' = "await_tasks"
    /\ state' = "ended"
    /\ ever_ended' = TRUE
    /\ sender' = [sender EXCEPT !.cancel = TRUE]
    /\ UNCHANGED <<metadata, conversation, current_utterance, is_speaking,
                   speech_queue, stop_speaking, procs, stt, n_ev, sent,
                   llm_request, finals>>

\* _process_twilio_messages, lines 96-99: the message is not JSON
InvalidJson ==
    /\ Reading
    /\ n_in' = n_in + 1
    /\ UNCHANGED <<state, metadata, conversation, current_utterance, is_speaking,
                   speech_queue, stop_speaking, handler, sender, procs, stt, n_ev,
                   sent, llm_request, ever_ended, finals>>

\* _handle_twilio_message, lines 107-108: "connected" (or an event no branch names)
HandleConnected ==
    /\ Reading
    /\ n_in' = n_in + 1
    /\ UNCHANGED <<state, metadata, conversation, current_utterance, is_speaking,
                   speech_queue, stop_speaking, handler, sender, procs, stt, n_ev,
                   sent, llm_request, ever_ended, finals>>

\* _handle_twilio_message, lines 110-127, with _speak_greeting, lines 206-210
HandleStart ==
    /\ Reading
    /\ \E start_data \in StartDatas(metadata.stream_sid = "") :
         LET custom_params == Get(start_data, "customParameters", <<>>) IN
         metadata' = [call_sid |-> Get(start_data, "callSid", ""),
                      stream_sid |-> Get(start_data, "streamSid", ""),
                      caller |-> Get(custom_params, "caller", "Unknown"),
                      called |-> Get(custom_params, "called", "")]
    /\ state' = "greeting"
    /\ speech_queue' = Put(speech_queue, <<Greeting>>)
    /\ conversation' = AddAssistantMessage(conversation, Greeting)
    /\ n_in' = n_in + 1
    /\ UNCHANGED <<current_utterance, is_speaking, stop_speaking, handler, sender,
                   procs, stt, n_ev, sent, llm_request, ever_ended, finals>>

\* _handle_twilio_message, lines 129-136: the payload, when there is one, is
\* handed to stt.send_audio_base64 (stt.py lines 141-169), which sends it or
\* drops it and changes nothing of the call
HandleMedia ==
    /\ Reading
    /\ \E payload \in Payloads :
          /\ payload # "" => SendAudio(stt) # "blocked"
          /\ n_in' = n_in + 1
    /\ UNCHANGED <<state, metadata, conversation, current_utterance, is_speaking,
                   speech_queue, stop_speaking, handler, sender, procs, stt, n_ev,
                   sent, llm_request, ever_ended, finals>>

\* _handle_twilio_message, lines 138-140
HandleStop ==
    /\ Reading
    /\ state' = "ended"
    /\ ever_ended' = TRUE
    /\ n_in' = n_in + 1
    /\ UNCHANGED <<metadata, conversation, current_utterance, is_speaking,
                   speech_queue, stop_speaking, handler, sender, procs, stt, n_ev,
                   sent, llm_request, finals>>

\* _handle_twilio_message, lines 142-148
HandleMark ==
    /\ Reading
    /\ \E mark_name \in MarkNames :
         state' = IF mark_name = "greeting_end" THEN "listening" ELSE state
    /\ n_in' = n_in + 1
    /\ UNCHANGED <<metadata, conversation, current_utterance, is_speaking,
                   speech_queue, stop_speaking, handler, sender, procs, stt, n_ev,
                   sent, llm_request, ever_ended, finals>>

\* ------------------------------------------------------------------ _cleanup
\* the telephony socket closes: iter_text ends, and handle's finally runs
\* _cleanup up to its first await, lines 309-316: the state is set and the
\* speech sender (the only task of _tasks) is cancelled
CleanupBegin ==
    /\ handler = "reading"
    /\ handler' = "await_tasks"
    /\ state' = "ended"
    /\ ever_ended' = TRUE
    /\ sender' = [sender EXCEPT !.cancel = TRUE]
    /\ UNCHANGED <<metadata, conversation, current_utterance, is_speaking,
                   speech_queue, stop_speaking, procs, stt, n_in, n_ev, sent,
                   llm_request, finals>>

\* _cleanup, lines 316-324: the awaited sender has ended; the STT connection
\* is closed and the transcript saved
CleanupFinish ==
    /\ handler = "await_tasks"
    /\ sender.pc = "done"
    /\ handler' = "done"
    /\ stt' = SttClose(stt)
    /\ UNCHANGED <<state, metadata, conversation, current_utterance, is_speaking,
                   speech_queue, stop_speaking, sender, procs, n_in, n_ev, sent,
                   llm_request, ever_ended, finals>>

\* ------------------------------------------------------------------ STT receive loop
\* DeepgramSTT._parse_transcript, lines 112-139: the event, or none
\* (a sequence of at most one TranscriptEvent)
ParseTranscript(data) ==
    IF data.type = "Results"
    THEN LET transcript == Strip(data.transcript) IN
         IF transcript = <<>> THEN <<>>
         ELSE <<[text |-> transcript, is_final |-> data.is_final,
                 speech_final |-> data.speech_final]>>
    ELSE <<>>

\* asyncio.create_task(self._process_utterance(utterance)): a task that has
\* not run yet.  text and pieces are history: the text of the event, and the
\* finals of the turn in order.
NewTask(utterance, event) ==
    [pc |-> "created", utterance |-> utterance, stream |-> <<>>, buffer |-> <<>>,
     full_response |-> <<>>, text |-> event.text,
     pieces |-> Append(finals, event.text)]

\* a task that has returned: its locals are gone
Finished(pc) ==
    [pc |-> pc, utterance |-> <<>>, stream |-> <<>>, buffer |-> <<>>,
     full_response |-> <<>>, text |-> <<>>, pieces |-> <<>>]

\* CallHandler._on_transcript, lines 150-174
OnTranscript(event) ==
    IF state = "ended"
    THEN UNCHANGED <<current_utterance, procs, stop_speaking, speech_queue, finals>>
    ELSE IF event.is_final
    THEN /\ IF event.speech_final
            THEN LET utterance == Strip(event.text) IN
                 /\ procs' = IF utterance # <<>>
                             THEN Append(procs, NewTask(utterance, event))
                             ELSE procs
                 /\ current_utterance' = <<>>
                 /\ finals' = <<>>
            ELSE /\ current_utterance' = event.text
                 /\ finals' = Append(finals, event.text)
                 /\ UNCHANGED procs
         /\ UNCHANGED <<stop_speaking, speech_queue>>
    ELSE /\ IF is_speaking /\ Strip(event.text) # <<>>
            THEN /\ stop_speaking' = TRUE
                 \* history: what is queued when the signal is raised
                 /\ speech_queue' = IF stop_speaking THEN speech_queue
                                    ELSE [k \in DOMAIN speech_queue |->
                                            [speech_queue[k] EXCEPT !.barged = TRUE]]
            ELSE UNCHANGED <<stop_speaking, speech_queue>>
         /\ UNCHANGED <<current_utterance, procs, finals>>

\* DeepgramSTT._receive_loop, lines 89-105, for the message data: when it
\* parses to an event, the callback is called
Receive(data) ==
    /\ stt.recv = "running"
    /\ stt.ws = "open"
    /\ ~stt.closed
    /\ n_ev < MaxEvents
    /\ n_ev' = n_ev + 1
    /\ LET event == ParseTranscript(data) IN
       IF event # <<>>
       THEN OnTranscript(event[1])
       ELSE UNCHANGED <<current_utterance, procs, stop_speaking, speech_queue, finals>>
    /\ UNCHANGED <<state, metadata, conversation, is_speaking, handler, sender, stt,
                   n_in, sent, llm_request, ever_ended>>

\* DeepgramSTT._receive_loop: one message is received
ReceiveMessage == \E data \in SttMessages : Receive(data)

\* DeepgramSTT._receive_loop, lines 107-110: the connection is closed by the
\* peer; the loop logs it and returns
ReceiveLoopClosed ==
    /\ stt.recv = "running"
    /\ stt.ws = "open"
    /\ stt' = [stt EXCEPT !.ws = "lost", !.recv = "exited"]
    /\ UNCHANGED <<state, metadata, conversation, current_utterance, is_speaking,
                   speech_queue, stop_speaking, handler, sender, procs, n_in, n_ev,
                   sent, llm_request, ever_ended, finals>>

\* ------------------------------------------------------------------ utterance processor
\* CallHandler._process_utterance, lines 178-191, up to the await of the
\* completion request made by respond_by_sentence, lines 145-152
ProcessUtterance(i) ==
    /\ procs[i].pc = "created"
    /\ IF procs[i].utterance = <<>>
       THEN /\ procs' = [procs EXCEPT ![i] = Finished("done")]
            /\ UNCHANGED <<state, conversation, llm_request>>
       ELSE /\ state' = "processing"
            /\ conversation' = AddUserMessage(conversation, procs[i].utterance)
            /\ llm_request' = [n |-> llm_request.n + 1,
                               messages |-> ToApiFormat(conversation')]
            /\ \E response \in Responses :
                 procs' = [procs EXCEPT ![i].pc = "streaming",
                                        ![i].stream = response,
                                        ![i].text = <<>>,
                                        ![i].pieces = <<>>]
    /\ UNCHANGED <<metadata, current_utterance, is_speaking, speech_queue,
                   stop_speaking, handler, sender, stt, n_in, n_ev, sent,
                   ever_ended, finals>>

\* full_response += sentence + " ", for each sentence in order
RECURSIVE JoinSentences(_, _)
JoinSentences(full_response, sentences) ==
    IF sentences = <<>> THEN full_response
    ELSE JoinSentences(full_response \o Head(sentences) \o <<" ">>, Tail(sentences))

\* respond_by_sentence, lines 154-171, with _process_utterance, lines
\* 191-194: the next chunk of the stream arrives; the sentences it completes
\* are put on the speech queue
StreamChunk(i) ==
    /\ procs[i].pc = "streaming"
    /\ procs[i].stream # <<>>
    /\ LET content == Head(procs[i].stream)
           cut == IF content # <<>>
                  THEN CutSentences(procs[i].buffer \o content, <<>>)
                  ELSE [sentences |-> <<>>, buffer |-> procs[i].buffer]
       IN /\ procs' = [procs EXCEPT
                         ![i].stream = Tail(@),
                         ![i].buffer = cut.buffer,
                         ![i].full_response = JoinSentences(@, cut.sentences)]
          /\ speech_queue' = Put(speech_queue, cut.sentences)
    /\ UNCHANGED <<state, metadata, conversation, current_utterance, is_speaking,
                   stop_speaking, handler, sender, stt, n_in, n_ev, sent,
                   llm_request, ever_ended, finals>>

\* respond_by_sentence, lines 173-175, with _process_utterance, lines
\* 191-197: the stream ends; the rest of the buffer is the last sentence and
\* the response is recorded
StreamEnd(i) ==
    /\ procs[i].pc = "streaming"
    /\ procs[i].stream = <<>>
    /\ LET last == IF Strip(procs[i].buffer) # <<>>
                   THEN <<Strip(procs[i].buffer)>> ELSE <<>>
           full_response == JoinSentences(procs[i].full_response, last)
       IN /\ procs' = [procs EXCEPT ![i] = Finished("done")]
          /\ speech_queue' = Put(speech_queue, last)
          /\ conversation' = AddAssistantMessage(conversation, Strip(full_response))
    /\ UNCHANGED <<state, metadata, current_utterance, is_speaking, stop_speaking,
                   handler, sender, stt, n_in, n_ev, sent, llm_request, ever_ended,
                   finals>>

\* _process_utterance, lines 199-204: the completion request or its stream raises
StreamRaises(i) ==
    /\ procs[i].pc = "streaming"
    /\ procs' = [procs EXCEPT ![i] = Finished("failed")]
    /\ speech_queue' = Put(speech_queue, <<Fallback>>)
    /\ UNCHANGED <<state, metadata, conversation, current_utterance, is_speaking,
                   stop_speaking, handler, sender, stt, n_in, n_ev, sent,
                   llm_request, ever_ended, finals>>

\* ------------------------------------------------------------------ speech sender
\* a variant that does not stop at the end of the blob
Slice_PastEnd(audio_len, offset) ==
    [first |-> offset, size |-> chunk_size]

\* audio_data[offset : offset + chunk_size] of a blob of audio_len bytes: the
\* index of its first byte and its length
Slice(audio_len, offset) ==
    [first |-> offset,
     size |-> IF audio_len - offset < chunk_size THEN audio_len - offset
              ELSE chunk_size]

\* the bytes a frame without payload carries
NoBytes == [first |-> 0, size |-> 0]

\* an outbound frame carrying the bytes of slice; stop is history: the
\* interrupt signal was set when the frame was written
Frame(event, slice) ==
    [event |-> event, streamSid |-> metadata.stream_sid, first |-> slice.first,
     size |-> slice.size, stop |-> stop_speaking]

\* the sender is at an await and has not been cancelled
SenderAt(pc) == sender.pc = pc /\ ~sender.cancel

\* the loop test of _speech_sender, line 216, on the state st
LoopTest(st) == IF st = "ended" THEN "done" ELSE "get"

\* _speech_sender, lines 214-216: the task starts
SenderStart ==
    /\ SenderAt("start")
    /\ sender' = [sender EXCEPT !.pc = LoopTest(state)]
    /\ UNCHANGED <<state, metadata, conversation, current_utterance, is_speaking,
                   speech_queue, stop_speaking, handler, procs, stt, n_in, n_ev,
                   sent, llm_request, ever_ended, finals>>

\* _speech_sender, lines 219-222, 240-241 and 216: the wait for the queue
\* times out and the loop test finds ENDED (with another state the sender
\* waits again, which changes nothing)
SenderTimeout ==
    /\ SenderAt("get")
    /\ speech_queue = <<>>
    /\ state = "ended"
    /\ sender' = [sender EXCEPT !.pc = "done"]
    /\ UNCHANGED <<state, metadata, conversation, current_utterance, is_speaking,
                   speech_queue, stop_speaking, handler, procs, stt, n_in, n_ev,
                   sent, llm_request, ever_ended, finals>>

\* _speech_sender, lines 219-231: a text is dequeued and its synthesis requested
SenderGet ==
    /\ SenderAt("get")
    /\ speech_queue # <<>>
    /\ speech_queue' = Tail(speech_queue)
    /\ is_speaking' = TRUE
    /\ stop_speaking' = FALSE
    /\ state' = "speaking"
    /\ sender' = [sender EXCEPT !.pc = "synthesize", !.text = Head(speech_queue).text,
                                !.barged = Head(speech_queue).barged, !.err = "none",
                                !.audio_len = 0, !.offset = 0]
    /\ sent' = <<>>
    /\ UNCHANGED <<metadata, conversation, current_utterance, handler, procs, stt,
                   n_in, n_ev, llm_request, ever_ended, finals>>

\* a variant in which a send error ends the speech sender
AfterSend_ErrorEnds(queue, err) ==
    /\ is_speaking' = FALSE
    /\ state' = IF queue = <<>> THEN "listening" ELSE state
    /\ sender' = [sender EXCEPT !.pc = IF err = "send" THEN "done" ELSE LoopTest(state'),
                                !.err = err]

\* _speech_sender, lines 234-238 and 216: _send_audio_to_twilio has returned,
\* leaving the queue as queue; err is history: "send" after a send that raised
AfterSend(queue, err) ==
    /\ is_speaking' = FALSE
    /\ state' = IF queue = <<>> THEN "listening" ELSE state
    /\ sender' = [sender EXCEPT !.pc = LoopTest(state'), !.err = err]

\* _send_audio_to_twilio, lines 254-285, from the loop test at offset to the
\* next await (or the return) for a blob of audio_len bytes
SendAudioToTwilio(audio_len, offset) ==
    IF offset >= audio_len
    THEN /\ UNCHANGED <<speech_queue, sent>>
         /\ AfterSend(speech_queue, "none")
    ELSE IF stop_speaking
    THEN \* lines 255-265: the queue is emptied and the clear frame written ...
         \/ /\ speech_queue' = <<>>
            /\ sent' = Append(sent, Frame("clear", NoBytes))
            /\ sender' = [sender EXCEPT !.pc = "clear", !.audio_len = audio_len,
                                        !.offset = offset]
            /\ UNCHANGED <<state, is_speaking>>
         \* ... or _send_twilio_clear's send raises, lines 290-293
         \/ /\ speech_queue' = <<>>
            /\ UNCHANGED sent
            /\ AfterSend(<<>>, "send")
    ELSE \* lines 267-285: the next chunk is written and the pacing delay starts ...
         \/ /\ sent' = Append(sent, Frame("media", Slice(audio_len, offset)))
            /\ sender' = [sender EXCEPT !.pc = "pace", !.audio_len = audio_len,
                                        !.offset = offset + chunk_size]
            /\ UNCHANGED <<state, is_speaking, speech_queue>>
         \* ... or send_text raises, lines 280-282
         \/ /\ UNCHANGED <<speech_queue, sent>>
            /\ AfterSend(speech_queue, "send")

\* tts.synthesize returns a blob of one of the lengths lens, tts.py lines
\* 62-63, and _send_audio_to_twilio starts
Synthesized(lens) ==
    /\ SenderAt("synthesize")
    /\ \E audio_len \in lens : SendAudioToTwilio(audio_len, 0)
    /\ UNCHANGED <<metadata, conversation, current_utterance, stop_speaking, handler,
                   procs, stt, n_in, n_ev, llm_request, ever_ended, finals>>

SynthesizeReturns == Synthesized(AudioLens)

\* tts.synthesize raises, tts.py lines 58-60; _speech_sender, lines 244-246 and 216
SynthesizeRaises ==
    /\ SenderAt("synthesize")
    /\ is_speaking' = FALSE
    /\ sender' = [sender EXCEPT !.pc = LoopTest(state), !.err = "synthesize"]
    /\ UNCHANGED <<state, metadata, conversation, current_utterance, speech_queue,
                   stop_speaking, handler, procs, stt, n_in, n_ev, sent,
                   llm_request, ever_ended, finals>>

\* _send_audio_to_twilio, line 285: the pacing delay is over
PaceOver ==
    /\ SenderAt("pace")
    /\ SendAudioToTwilio(sender.audio_len, sender.offset)
    /\ UNCHANGED <<metadata, conversation, current_utterance, stop_speaking, handler,
                   procs, stt, n_in, n_ev, llm_request, ever_ended, finals>>

\* _send_audio_to_twilio, lines 264-265: the clear frame has been sent
ClearSent ==
    /\ SenderAt("clear")
    /\ AfterSend(speech_queue, "none")
    /\ UNCHANGED <<metadata, conversation, current_utterance, speech_queue,
                   stop_speaking, handler, procs, stt, n_in, n_ev, sent,
                   llm_request, ever_ended, finals>>

\* _speech_sender, lines 242-243: the cancelled task gets CancelledError at
\* its await and leaves the loop (a task that has not started never runs)
SenderCancelled ==
    /\ sender.cancel
    /\ sender.pc \notin {"none", "done"}
    /\ sender' = [sender EXCEPT !.pc = "done"]
    /\ UNCHANGED <<state, metadata, conversation, current_utterance, is_speaking,
                   speech_queue, stop_speaking, handler, procs, stt, n_in, n_ev,
                   sent, llm_request, ever_ended, finals>>

\* ------------------------------------------------------------------ specification
Next ==
    \/ Connect
    \/ ConnectFails
    \/ InvalidJson
    \/ HandleConnected
    \/ HandleStart
    \/ HandleMedia
    \/ HandleStop
    \/ HandleMark
    \/ CleanupBegin
    \/ CleanupFinish
    \/ ReceiveMessage
    \/ ReceiveLoopClosed
    \/ \E i \in DOMAIN procs : ProcessUtterance(i)
    \/ \E i \in DOMAIN procs : StreamChunk(i)
    \/ \E i \in DOMAIN procs : StreamEnd(i)
    \/ \E i \in DOMAIN procs : StreamRaises(i)
    \/ SenderStart
    \/ SenderTimeout
    \/ SenderGet
    \/ SynthesizeReturns
    \/ SynthesizeRaises
    \/ PaceOver
    \/ ClearSent
    \/ SenderCancelled

Spec == Init /\ [][Next]_vars

\* ------------------------------------------------------------------ claims
Last(seq) == seq[Len(seq)]

\* the step writes a frame of one of the kinds to the telephony socket
Writes(kinds) ==
    /\ Len(sent') = Len(sent) + 1
    /\ Last(sent').event \in kinds

\* the task i makes its completion request in the step
Requests(i) == procs[i].pc = "created" /\ procs'[i].pc = "streaming"

\* C1: once the session state is Ended, no step of any task gives it another
\* value.
C1_EndedAbsorbing == [][state = "ended" => state' = "ended"]_vars

\* C2: after the session state has become Ended, no media frame and no mark
\* frame is written to the telephony socket.
C2_NoFrameAfterEnded == [][ever_ended => ~Writes({"media", "mark"})]_vars

\* C3: after the session state has become Ended, no completion request is
\* made, neither for an event delivered after Ended nor by a task created
\* before.
C3_NoRequestAfterEnded == [][ever_ended => llm_request'.n = llm_request.n]_vars

Clears == {k \in DOMAIN sent : sent[k].event = "clear"}

\* C4: after a barge-in, whenever it comes in the segment, no media frame is
\* written with the interrupt signal raised, none for a segment that was
\* queued at the barge-in, and when the interrupted segment (one with audio)
\* is left, no send and no synthesis having failed, exactly one clear frame
\* has been written.
C4_BargeIn ==
    /\ \A k \in DOMAIN sent :
         sent[k].event = "media" => ~sent[k].stop /\ ~sender.barged
    /\ stop_speaking /\ ~is_speaking /\ sender.err = "none" /\ sender.audio_len > 0
         => Cardinality(Clears) = 1

\* the texts joined in order, one space between two
RECURSIVE JoinWithSpace(_)
JoinWithSpace(texts) ==
    IF texts = <<>> THEN <<>>
    ELSE IF Len(texts) = 1 THEN texts[1]
    ELSE texts[1] \o <<" ">> \o JoinWithSpace(Tail(texts))

\* C5: the utterance handed to the utterance processor at a speech-final
\* event is the ordered join of the finals received since the last
\* speech-final event, that event's text included.
C5_FinalsAccumulate ==
    \A i \in DOMAIN procs :
        procs[i].pc = "created" => procs[i].utterance = JoinWithSpace(procs[i].pieces)

\* what the last message passed to the LLM must hold for the utterance text,
\* messages being the conversation before the utterance is added
MergedContent(messages, text) ==
    IF messages # <<>> /\ Last(messages).role = "user"
    THEN Last(messages).content \o <<" ">> \o text
    ELSE text

\* one request at most is made in a step, by a task leaving "created", and
\* only then; a task that has left "created" never returns to it; the
\* request's messages are the system prompt and then the conversation
OneRequestPerTask ==
    /\ llm_request' # llm_request =>
         /\ llm_request'.n = llm_request.n + 1
         /\ Cardinality({i \in DOMAIN procs : Requests(i)}) = 1
         /\ llm_request'.messages[1] = Message("system", SystemPrompt)
         /\ Len(llm_request'.messages) = Len(conversation') + 1
    /\ \A i \in DOMAIN procs :
         /\ procs[i].pc # "created" => procs'[i].pc # "created"
         /\ Requests(i) => llm_request'.n = llm_request.n + 1
    /\ Len(procs') \in {Len(procs), Len(procs) + 1}

\* C6 (as claimed): the request made for a speech-final event with text T
\* is the only one made for it, and the last message passed has content T.
C6_LastCallerMessageIsT ==
    [][/\ OneRequestPerTask
       /\ \A i \in DOMAIN procs :
            Requests(i) =>
                /\ Last(llm_request'.messages).role = "user"
                /\ Last(llm_request'.messages).content = procs[i].text]_vars

\* C6 (amended): the request made for a speech-final event with text T is
\* the only one made for it, and the last message passed is a caller message
\* whose content is T when the conversation did not end with a caller
\* message, and else that message's content, one space and T.
C6_LastCallerMessageEndsWithT ==
    [][/\ OneRequestPerTask
       /\ \A i \in DOMAIN procs :
            Requests(i) =>
                /\ Last(llm_request'.messages).role = "user"
                /\ Last(llm_request'.messages).content =
                     MergedContent(conversation, procs[i].text)]_vars

\* C6, reached: a request whose last message is a merged caller message
\* ("b" twice), and one whose last message is the utterance alone
C6_Witness ==
    /\ llm_request.n = 2
    /\ Last(llm_request.messages) = Message("user", <<"b", " ", "b">>)
    /\ \E i \in DOMAIN procs : procs[i].pc = "streaming"

\* s ends with t
EndsWith(s, t) ==
    Len(s) >= Len(t) /\ SubSeq(s, Len(s) - Len(t) + 1, Len(s)) = t

\* C7: when the completion request or its stream raises, the fallback
\* sentence is put on the speech queue, the conversation then holds the
\* caller utterance and, as its last message, the fallback as an assistant
\* message, and the state is not Ended.
C7_FallbackRecorded ==
    [][\A i \in DOMAIN procs :
         procs[i].pc = "streaming" /\ procs'[i].pc = "failed" =>
            /\ speech_queue' # <<>>
            /\ Last(speech_queue').text = Fallback
            /\ \E k \in DOMAIN conversation' :
                 /\ conversation'[k].role = "user"
                 /\ EndsWith(conversation'[k].content, procs[i].utterance)
            /\ Last(conversation') = Message("assistant", Fallback)
            /\ state' # "ended"]_vars

\* C8: when synthesis has raised in a session that never was Ended, the
\* fallback utterance is on the speech queue until the sender dequeues again,
\* and the state is not Speaking while the sender waits on an empty queue.
C8_SynthesisFailureFallback ==
    /\ sender.err = "synthesize" /\ ~ever_ended
         => \E k \in DOMAIN speech_queue : speech_queue[k].text = Fallback
    /\ sender.pc = "get" /\ speech_queue = <<>> => state # "speaking"

\* a step of the speech sender or of an utterance processor
TaskStep ==
    \/ \E i \in DOMAIN procs : ProcessUtterance(i)
    \/ \E i \in DOMAIN procs : StreamChunk(i)
    \/ \E i \in DOMAIN procs : StreamEnd(i)
    \/ \E i \in DOMAIN procs : StreamRaises(i)
    \/ SenderStart \/ SenderTimeout \/ SenderGet \/ SynthesizeReturns
    \/ SynthesizeRaises \/ PaceOver \/ ClearSent \/ SenderCancelled

\* C9: when the receive loop has seen the STT connection closed in a call
\* that has started and whose telephony socket is still open, the session
\* does not come to rest (no task having a step left to take) without its
\* state having been set to Ended.
C9_SttLossEndsSession ==
    /\ stt.ws = "lost"
    /\ handler = "reading"
    /\ metadata.stream_sid # ""
    /\ ~ENABLED TaskStep
    => ever_ended

\* C10: once _cleanup has completed no utterance processor takes a step: no
\* stream is consumed, no sentence enqueued, and neither the conversation
\* nor the session state is changed.
C10_NothingRunsAfterCleanup ==
    [][handler = "done" =>
         UNCHANGED <<procs, speech_queue, conversation, state, llm_request>>]_vars

\* ------------------------------------------------------------------ scheduling
\* a step of the speech sender task
SenderStep ==
    \/ SenderStart \/ SenderTimeout \/ SenderGet \/ SynthesizeReturns
    \/ SynthesizeRaises \/ PaceOver \/ ClearSent \/ SenderCancelled

\* a step of the i-th utterance processor task
ProcStep(i) ==
    /\ i \in DOMAIN procs
    /\ \/ ProcessUtterance(i) \/ StreamChunk(i) \/ StreamEnd(i) \/ StreamRaises(i)

\* the event loop runs every task that is ready: a task whose await can
\* complete (a timer, a queue with an item, a response of the TTS or LLM
\* service, a cancellation) is resumed.  Nothing is assumed of the peers:
\* inbound telephony frames, STT messages and the closing of either socket
\* may never come.
FairSpec ==
    /\ Spec
    /\ WF_vars(SenderStep)
    /\ \A i \in 1..MaxEvents : WF_vars(ProcStep(i))

\* a stop frame has been read while a segment is being spoken, and the
\* telephony socket is still open
StopMidSpeaking ==
    /\ state = "ended"
    /\ handler = "reading"
    /\ sender.pc \in {"synthesize", "pace"}
    /\ ~sender.cancel

\* C11: after a stop frame is read while a segment is being spoken, the
\* speech sender eventually leaves its loop, with no further inbound event
\* assumed (the least the claim asks: the teardown of the session, which
\* it asks too, needs the sender to have ended).
C11_StopTerminatesTasks ==
    StopMidSpeaking ~> (sender.pc = "done")

\* ------------------------------------------------------------------ claims (continued)
\* the changes of state between non-Ended states the state machine lists
Edges ==
    { <<"connecting", "greeting">>, <<"greeting", "listening">>,
      <<"listening", "processing">>, <<"processing", "speaking">>,
      <<"speaking", "listening">> }

\* C12: a step that changes the state from one non-Ended state to another
\* follows one of the listed edges; stated for the steps of the session's
\* own tasks (the speech sender and the utterance processors) in a call that
\* has started, whatever the telephony peer sends.
C12_OnlyListedEdges ==
    [][/\ metadata.stream_sid # ""
       /\ n_in' = n_in
       /\ state # "ended" /\ state' # "ended" /\ state' # state
       => <<state, state'>> \in Edges]_vars


\* C13: once the greeting has been sent whole (every chunk of its audio
\* written, no barge-in, no failure, the session never Ended), a mark frame
\* has been written after its last media frame.
C13_GreetingMark ==
    /\ sender.text = Greeting
    /\ sender.pc = "get"
    /\ sender.err = "none"
    /\ sender.audio_len > 0
    /\ sender.offset >= sender.audio_len
    /\ Clears = {}
    /\ ~ever_ended
    => Last(sent).event = "mark"


\* the STT messages that parse to an interim event with non-whitespace text
InterimMessages ==
    {data \in SttMessages :
        LET event == ParseTranscript(data) IN
        event # <<>> /\ ~event[1].is_final /\ Strip(event[1].text) # <<>>}

\* C14: a step that delivers an interim event with non-whitespace text while
\* the state is Speaking leaves the interrupt signal raised.
C14_InterimLatches ==
    [][\A data \in InterimMessages :
         state = "speaking" /\ Receive(data) => stop_speaking']_vars


\* the utterances the bounded STT messages can give: " b " trimmed
Utterances == {Strip(data.transcript) : data \in {d \in SttMessages : d.speech_final}} \ {<<>>}

\* the content is one utterance, or several joined with one space between two
RECURSIVE JoinedUtterances(_)
JoinedUtterances(content) ==
    \E u \in Utterances :
        \/ content = u
        \/ /\ Len(content) > Len(u) + 1
           /\ SubSeq(content, 1, Len(u)) = u
           /\ content[Len(u) + 1] = " "
           /\ JoinedUtterances(SubSeq(content, Len(u) + 2, Len(content)))

\* C15: the stored conversation holds no two adjacent caller messages, and
\* every caller message is one utterance or several utterances joined with
\* one space (the merge of add_user_message).
C15_NoAdjacentCallerMessages ==
    /\ \A k \in 1..(Len(conversation) - 1) :
         ~(conversation[k].role = "user" /\ conversation[k + 1].role = "user")
    /\ \A k \in DOMAIN conversation :
         conversation[k].role = "user" => JoinedUtterances(conversation[k].content)

\* C15, reached: a caller message made of two utterances merged, with an
\* assistant message appended after it
C15_Witness ==
    \E k \in 1..(Len(conversation) - 1) :
        /\ conversation[k] = Message("user", <<"b", " ", "b">>)
        /\ conversation[k + 1].role = "assistant"


\* C16: the messages of every completion request made are the system prompt
\* and then caller and assistant messages, no two adjacent ones of the same
\* role.
C16_RolesAlternate ==
    llm_request.n > 0 =>
        LET messages == llm_request.messages IN
        /\ messages[1] = Message("system", SystemPrompt)
        /\ \A k \in 2..Len(messages) : messages[k].role \in {"user", "assistant"}
        /\ \A k \in 2..(Len(messages) - 1) : messages[k].role # messages[k + 1].role


\* ------------------------------------------------------------------ one segment
\* the longest blob of the specification of one segment
MaxBlob == 1281

\* the call has started and the speech sender has dequeued the greeting: the
\* state after Connect, HandleStart, SenderStart and SenderGet
SegmentInit ==
    /\ state = "speaking"
    /\ metadata = [call_sid |-> "CA1", stream_sid |-> "MZ1",
                   caller |-> "+15551234567", called |-> "+15550000000"]
    /\ conversation = <<Message("assistant", Greeting)>>
    /\ current_utterance = <<>>
    /\ is_speaking = TRUE
    /\ speech_queue = <<>>
    /\ stop_speaking = FALSE
    /\ handler = "reading"
    /\ sender = [pc |-> "synthesize", cancel |-> FALSE, text |-> Greeting,
                 barged |-> FALSE, err |-> "none", audio_len |-> 0, offset |-> 0]
    /\ procs = <<>>
    /\ stt = [ws |-> "open", closed |-> FALSE, connected |-> TRUE, recv |-> "running"]
    /\ n_in = 1
    /\ n_ev = 0
    /\ sent = <<>>
    /\ llm_request = [n |-> 0, messages |-> <<>>]
    /\ ever_ended = FALSE
    /\ finals = <<>>

\* tts.synthesize returns a blob of any length up to MaxBlob
SynthesizeBlob == Synthesized(0..MaxBlob)

\* an interim event with non-whitespace text is delivered
InterimEvent == \E data \in InterimMessages : Receive(data)

\* the sending of one segment, a blob of any length, with the barge-ins that
\* may come during it
SegmentNext ==
    \/ SynthesizeBlob
    \/ PaceOver
    \/ ClearSent
    \/ InterimEvent

SegmentSpec == SegmentInit /\ [][SegmentNext]_vars

\* the segment has been left with no interruption and no send error
SentWhole ==
    /\ sender.pc = "get"
    /\ sender.err = "none"
    /\ ~stop_speaking
    /\ Clears = {}

\* C17: for a blob of n bytes sent whole, ceil(n/640) media frames have been
\* written (none when n = 0); they carry consecutive slices starting at byte
\* 0 and ending at byte n, each of 640 bytes but the last, which has between
\* 1 and 640.
C17_Chunking ==
    SentWhole =>
        LET n == sender.audio_len IN
        /\ Len(sent) = (n + 639) \div 640
        /\ \A k \in DOMAIN sent :
             /\ sent[k].event = "media"
             /\ sent[k].first = 640 * (k - 1)
             /\ sent[k].size = IF k < Len(sent) THEN 640 ELSE n - 640 * (k - 1)
             /\ sent[k].size \in 1..640

\* C17, reached: a blob of 1281 bytes sent whole in three frames, the last of
\* one byte
C17_Witness ==
    /\ SentWhole
    /\ sender.audio_len = 1281
    /\ Len(sent) = 3
    /\ sent[3].size = 1


\* ------------------------------------------------------------------ one reply
\* fragments a reply is streamed in
MaxFragments == 2

\* delta.content fragments: empty, without and with terminal punctuation,
\* with one and with two sentences, with runs of punctuation and of spaces
Fragments ==
    { <<>>, <<"a">>, <<".">>, <<" ">>, <<"b", " ">>,
      <<"a", ".">>, <<"a", ".", " ">>, <<"a", ".", "b">>, <<" ", "b", "!">>,
      <<"a", ".", "b", ".">>, <<"a", ".", " ", "b", "?", " ", "c">>,
      <<"!", "?", " ", " ">>, <<"a", ".", ".">> }

\* the streams of at most MaxFragments fragments
Replies ==
    UNION { [1..n -> Fragments] : n \in 0..MaxFragments }

\* the greeting has been spoken (an empty blob), a speech-final "b" has been
\* delivered and its utterance processor has made its request: the state
\* after Connect, HandleStart, SenderStart, SenderGet, SynthesizeReturns,
\* Receive and ProcessUtterance, the reply being any of Replies
ReplyInit ==
    /\ state = "processing"
    /\ metadata = [call_sid |-> "CA1", stream_sid |-> "MZ1",
                   caller |-> "+15551234567", called |-> "+15550000000"]
    /\ conversation = <<Message("assistant", Greeting), Message("user", <<"b">>)>>
    /\ current_utterance = <<>>
    /\ is_speaking = FALSE
    /\ speech_queue = <<>>
    /\ stop_speaking = FALSE
    /\ handler = "reading"
    /\ sender = [pc |-> "get", cancel |-> FALSE, text |-> Greeting,
                 barged |-> FALSE, err |-> "none", audio_len |-> 0, offset |-> 0]
    /\ \E reply \in Replies :
         procs = <<[pc |-> "streaming", utterance |-> <<"b">>, stream |-> reply,
                    buffer |-> <<>>, full_response |-> <<>>, text |-> <<>>,
                    pieces |-> <<>>]>>
    /\ stt = [ws |-> "open", closed |-> FALSE, connected |-> TRUE, recv |-> "running"]
    /\ n_in = 1
    /\ n_ev = 1
    /\ sent = <<>>
    /\ llm_request = [n |-> 1, messages |-> ToApiFormat(conversation)]
    /\ ever_ended = FALSE
    /\ finals = <<>>

\* the streaming of one reply and the speaking of its sentences, with the
\* barge-in that may come meanwhile
ReplyNext ==
    \/ \E i \in DOMAIN procs : StreamChunk(i)
    \/ \E i \in DOMAIN procs : StreamEnd(i)
    \/ \E i \in DOMAIN procs : StreamRaises(i)
    \/ SenderGet
    \/ SynthesizeReturns
    \/ SynthesizeRaises
    \/ PaceOver
    \/ ClearSent
    \/ InterimEvent

ReplySpec == ReplyInit /\ [][ReplyNext]_vars

\* the texts of the queue's entries, in order
Texts(queue) == [k \in DOMAIN queue |-> queue[k].text]

\* the texts concatenated, in order
RECURSIVE Flatten(_)
Flatten(texts) ==
    IF texts = <<>> THEN <<>> ELSE Head(texts) \o Flatten(Tail(texts))

\* the text without its spaces
NoSpaces(s) == SelectSeq(s, LAMBDA c : c # " ")

\* the entries the step has put on the speech queue: the queue has grown at
\* its tail by the texts new
Enqueues(new) == Texts(speech_queue') = Texts(speech_queue) \o new

\* what is on the queue after the entries the queue had
Added ==
    IF Len(speech_queue') >= Len(speech_queue)
    THEN SubSeq(Texts(speech_queue'), Len(speech_queue) + 1, Len(speech_queue'))
    ELSE <<>>

\* C18: a step of an utterance processor puts its sentences at the tail of
\* the speech queue in the order of the reply's text (the sentences put, in
\* order, and the text kept in the buffer are, spaces apart, the text that
\* was buffered and the fragment received; at the end of the stream the rest
\* of the buffer is put last), and the speech sender takes the head of the
\* queue, the rest keeping its order.
C18_InOrder ==
    [][/\ \A i \in DOMAIN procs :
            /\ procs[i].pc = "streaming" /\ procs'[i].pc = "streaming"
               /\ procs'[i] # procs[i]
               => /\ Enqueues(Added)
                  /\ \A k \in DOMAIN Added : Added[k] # <<>>
                  /\ NoSpaces(Flatten(Added) \o procs'[i].buffer)
                       = NoSpaces(procs[i].buffer \o Head(procs[i].stream))
            /\ procs[i].pc = "streaming" /\ procs'[i].pc = "done"
               => /\ Enqueues(Added)
                  /\ Len(Added) <= 1
                  /\ NoSpaces(Flatten(Added)) = NoSpaces(procs[i].buffer)
       /\ sender.pc = "get" /\ sender'.pc = "synthesize"
            => /\ sender'.text = Head(speech_queue).text
               /\ Texts(speech_queue') = Tail(Texts(speech_queue))]_vars

\* C18, reached: two sentences of one fragment are on the queue in the order
\* of the text, behind a sentence put earlier that is being spoken
C18_Witness ==
    /\ sender.pc = "synthesize"
    /\ sender.text = <<"a", ".">>
    /\ Texts(speech_queue) = << <<"a", ".">>, <<"b", ".">> >>


\* C19: every frame is written by a step of the speech sender task, and when
\* the sender starts a segment with the interrupt signal still latched (a
\* barge-in came during the previous segment, one with audio and without
\* failure), a clear frame has been written since: before any media frame of
\* the segment that starts.
C19_SingleWriterClearFirst ==
    [][/\ sent' # sent => SenderStep
       /\ /\ sender.pc = "get" /\ sender'.pc = "synthesize"
          /\ stop_speaking
          /\ sender.err = "none"
          /\ sender.audio_len > 0
          => Clears # {}]_vars


\* C20: once the first start frame has set the call metadata, no step
\* changes it.
C20_MetadataSetOnce ==
    [][metadata.stream_sid # "" => metadata' = metadata]_vars


\* C21: a step that reads an inbound message that is not JSON changes
\* neither the state, the metadata, the conversation, the speech queue nor
\* the interrupt signal, writes no frame, and leaves the reader reading.
C21_InvalidJsonSkipped ==
    [][InvalidJson =>
         /\ UNCHANGED <<state, metadata, conversation, speech_queue, stop_speaking,
                        sent>>
         /\ handler' = "reading"]_vars

\* C21, reached: a message is read, after an earlier one, in a started call
\* with a segment being sent, speech queued and the interrupt signal raised
C21_Witness ==
    /\ ENABLED InvalidJson
    /\ n_in > 0
    /\ metadata.stream_sid # ""
    /\ sender.pc = "pace"
    /\ speech_queue # <<>>
    /\ stop_speaking


\* C22: the step in which the sending of a frame raises writes no frame, does
\* not set the state to Ended and leaves the sender, unless the session was
\* Ended already, waiting for the next segment, which it can dequeue when
\* there is one; and no frame is written for the segment afterwards.
C22_SendErrorAbortsSegment ==
    [][/\ sender.err # "send" /\ sender'.err = "send"
          => /\ sent' = sent
             /\ state' = "ended" => state = "ended"
             /\ ~is_speaking'
             /\ state' # "ended" => sender'.pc = "get"
       /\ sender.err = "send"
          => /\ sent' = sent \/ (sent' = <<>> /\ sender'.err = "none")
             /\ sender.pc = "get" /\ ~sender.cancel /\ speech_queue # <<>>
                  => ENABLED SenderGet]_vars

\* C22, reached: the second chunk of a segment could not be sent; one media
\* frame was written for it and the sender waits with a segment queued
C22_Witness ==
    /\ sender.err = "send"
    /\ sender.pc = "get"
    /\ Len(sent) = 1
    /\ sent[1].event = "media"
    /\ sender.offset < sender.audio_len
    /\ speech_queue # <<>>
    /\ state # "ended"


\* text[1..e] is the prefix of text up to and including the first run of
\* punctuation and the whitespace that follows it
IsFirstRun(text, e) ==
    /\ e \in 1..Len(text)
    /\ \E p \in 1..e : \E q \in p..e :
         /\ \A k \in 1..(p - 1) : text[k] \notin Punct
         /\ \A k \in p..q : text[k] \in Punct
         /\ \A k \in (q + 1)..e : text[k] = " "
         /\ e < Len(text) => text[e + 1] # " "
         /\ q = e /\ e < Len(text) => text[e + 1] \notin Punct

\* sentences are the successive first-run prefixes of text, trimmed, and rest
\* is what is left of it, without punctuation
RECURSIVE Cuts(_, _, _)
Cuts(text, sentences, rest) ==
    IF sentences = <<>>
    THEN rest = text /\ \A k \in DOMAIN text : text[k] \notin Punct
    ELSE \E e \in 1..Len(text) :
            /\ IsFirstRun(text, e)
            /\ Head(sentences) = Strip(SubSeq(text, 1, e))
            /\ Cuts(SubSeq(text, e + 1, Len(text)), Tail(sentences), rest)

\* C23: the sentences an utterance processor receives from
\* respond_by_sentence are non-empty and trimmed; those of a fragment are the
\* successive prefixes of the buffer up to and including the first run of
\* punctuation and the whitespace after it, trimmed; at the end of the stream
\* a non-blank rest of the buffer is the one last sentence and a blank one
\* gives none, so that a non-blank stream without punctuation gives exactly
\* one sentence.
C23_Sentences ==
    [][\A i \in DOMAIN procs :
         /\ procs[i].pc = "streaming" /\ procs'[i] # procs[i]
            => /\ Enqueues(Added)
               /\ \A k \in DOMAIN Added : Added[k] # <<>> /\ Strip(Added[k]) = Added[k]
         /\ procs[i].pc = "streaming" /\ procs'[i].pc = "streaming"
            /\ procs'[i] # procs[i]
            => Cuts(procs[i].buffer \o Head(procs[i].stream), Added, procs'[i].buffer)
         /\ procs[i].pc = "streaming" /\ procs'[i].pc = "done"
            => /\ Strip(procs[i].buffer) # <<>> => Added = <<Strip(procs[i].buffer)>>
               /\ Strip(procs[i].buffer) = <<>> => Added = <<>>
               /\ \A k \in DOMAIN procs[i].buffer : procs[i].buffer[k] \notin Punct]_vars

\* C23, reached: the stream "b " then "a" has ended; it had no punctuation
\* and gave the one sentence "b a", which is being spoken
C23_Witness ==
    /\ procs # <<>>
    /\ procs[1].pc = "done"
    /\ sender.text = <<"b", " ", "a">>
    /\ sender.pc = "synthesize"
    /\ speech_queue = <<>>


\* ------------------------------------------------------------------ the STT connection
\* DeepgramSTT.close, lines 171-194, called by the owner of the connection
\* while it still forwards audio
Close ==
    /\ handler = "reading"
    /\ ~stt.closed
    /\ stt' = SttClose(stt)
    /\ UNCHANGED <<state, metadata, conversation, current_utterance, is_speaking,
                   speech_queue, stop_speaking, handler, sender, procs, n_in, n_ev,
                   sent, llm_request, ever_ended, finals>>

\* the DeepgramSTT object in the hands of its owner: connect, then audio
\* forwarded with send_audio_base64, messages and the end of the stream
\* from the peer, and close, in any order
SttNext ==
    \/ Connect
    \/ ConnectFails
    \/ HandleMedia
    \/ ReceiveMessage
    \/ ReceiveLoopClosed
    \/ Close

SttSpec == Init /\ [][SttNext]_vars

\* the handshake of the connection completed and the connection was closed
\* later, by the peer or by close()
ClosedAfterHandshake == stt.recv = "exited"

\* C24: send_audio called after the handshake completed and the connection
\* was closed later, by the peer or by close(), returns without raising and
\* without blocking, and sends nothing.
C24_ClosedSendDropped ==
    handler = "reading" /\ ClosedAfterHandshake => SendAudio(stt) = "dropped"



\* C25: no media frame is written while the session state is Processing:
\* the case of "whenever an outbound media frame is written, the session
\* state is Speaking" in which the utterance processor runs between two
\* chunks of a segment.
C25_MediaOnlyWhileSpeaking ==
    [][Writes({"media"}) => state # "processing"]_vars



\* C26: under fair scheduling of the tasks, every entry into Processing of
\* a session that has not ended before is eventually followed by Listening
\* or Ended, unless a synthesis call fails to return its audio.
C26_ProcessingLeadsOn ==
    (state = "processing" /\ ~ever_ended)
        ~> (state \in {"listening", "ended"} \/ sender.err = "synthesize")



\* C27: sentences of two LLM responses are never interleaved in the speech
\* queue: when a response that has put a sentence on the queue puts a
\* further one, the entry put last on the queue, if it still waits there
\* and is neither the greeting nor the fallback, is that response's own
\* previous sentence and not a sentence of another response.
C27_ResponsesNotInterleaved ==
    [][\A i \in DOMAIN procs :
         /\ procs[i].pc = "streaming"
         /\ procs'[i] # procs[i]
         /\ procs'[i].pc # "failed"
         /\ Added # <<>>
         /\ procs[i].full_response # <<>>
         /\ speech_queue # <<>>
         /\ Last(speech_queue).text \notin {Greeting, Fallback}
         => EndsWith(procs[i].full_response,
                     Last(speech_queue).text \o <<" ">>)]_vars



\* respond_by_sentence, lines 154-175, as a function: the sentences yielded
\* from a buffer and the fragments still to come.  An empty fragment is
\* skipped (line 156), every other one is appended to the buffer, which is
\* cut as long as the pattern is found (lines 157-171); the stripped rest is
\* the last sentence when it is not empty (lines 173-175).
RECURSIVE RespondBySentence(_, _)
RespondBySentence(buffer, stream) ==
    IF stream = <<>>
    THEN IF Strip(buffer) # <<>> THEN <<Strip(buffer)>> ELSE <<>>
    ELSE LET content == Head(stream)
             cut == IF content # <<>>
                    THEN CutSentences(buffer \o content, <<>>)
                    ELSE [sentences |-> <<>>, buffer |-> buffer]
         IN cut.sentences \o RespondBySentence(cut.buffer, Tail(stream))

\* C28: the sentences respond_by_sentence emits depend only on the
\* concatenated text, not on how it is cut into fragments: whatever the
\* processor holds in its buffer, any other delivery of the text still to
\* come yields the same sequence of sentences.
C28_FragmentationIndependent ==
    \A i \in DOMAIN procs :
        procs[i].pc = "streaming"
        => \A other \in Replies :
               Flatten(other) = Flatten(procs[i].stream)
               => RespondBySentence(procs[i].buffer, other)
                    = RespondBySentence(procs[i].buffer, procs[i].stream)

====
